---- MODULE Spec2Model ----
(***************************************************************************)
(* Model of the job orchestration in src/main.js: the activeProcesses      *)
(* registry, the three request listeners (fetch-github-releases,           *)
(* download-and-compile-deb, start-patching), the stdout line decoder of   *)
(* each listener, the 'close' handlers and the temp file of a patch job.   *)
(***************************************************************************)
EXTENDS Integers, Sequences, FiniteSets, TLC

\* ------------------------------------------------------------------ bounds
\* Jobs that get past the admission test, in the orchestration runs.
MaxJobs == 2
\* Writes all workers together make to their standard output, in the
\* orchestration runs.
MaxWrites == 1
\* Writes the one worker makes to its standard output, in the decoder runs.
MaxLines == 3
\* Calls the page makes to the bridge, in the window runs.
MaxCalls == 3

\* ------------------------------------------------------------- vocabulary
None == "none"
Urls == {"u"}
IpaNames == {"a.ipa"}
\* Date.now() as read by start-patching when no ipaName is given.
Clock == {"t1"}
ExitCodes == {"0", "1", "null"}
Kinds == {"fetch", "download", "patch"}
\* Every url or identifier a request may name; the runs with one job per
\* argument draw from Urls, the runs with jobs side by side from AllUrls.
AllUrls == Urls \cup {"v"}
Keys == Kinds \X AllUrls

\* Bytes on a worker's stdout.  "m1" "m2" are the lead and the continuation
\* byte of one two-byte UTF-8 character; "ch" is that character once
\* decoded and "FFFD" the replacement character.
NL == "\n"
KindLetters == {"p", "t", "o", "f", "g", "h", "e", "n"}
StringChars == {"ch", "FFFD"}

\* -------------------------------------------------------- Buffer.toString
RECURSIVE toString(_)
toString(data) ==
    IF data = <<>> THEN <<>>
    ELSE IF Head(data) = "m1"
         THEN IF Len(data) >= 2 /\ data[2] = "m2"
              THEN <<"ch">> \o toString(Tail(Tail(data)))
              ELSE <<"FFFD">> \o toString(Tail(data))
    ELSE IF Head(data) = "m2"
         THEN <<"FFFD">> \o toString(Tail(data))
    ELSE <<Head(data)>> \o toString(Tail(data))

\* String.prototype.indexOf('\n'), 1-based; 0 stands for -1.
RECURSIVE IndexFrom(_, _, _)
IndexFrom(s, c, i) ==
    IF i > Len(s) THEN 0
    ELSE IF s[i] = c THEN i
    ELSE IndexFrom(s, c, i + 1)

indexOf(s, c) == IndexFrom(s, c, 1)

\* ------------------------------------------------------------- JSON.parse
\* A line is JSON text when it is  { kind [i] string-chars }  : an object
\* whose kind letter stands for its type/status fields, "i" for an
\* identifier field set by the worker, and the rest for the characters of
\* a string value.
ParseOk(line) ==
    /\ Len(line) >= 3
    /\ line[1] = "{"
    /\ line[Len(line)] = "}"
    /\ line[2] \in KindLetters
    /\ \A k \in 3..(Len(line) - 1) :
          \/ line[k] \in StringChars
          \/ k = 3 /\ line[k] = "i"

MsgType(c) ==
    CASE c = "p" -> "progress"
      [] c = "t" -> "tweak_detected"
      [] c = "o" -> "operation"
      [] c = "f" -> "operation"
      [] c = "g" -> "github_releases"
      [] c = "h" -> "github_releases"
      [] c = "e" -> "github"
      [] OTHER   -> "unknown"

MsgStatus(c) ==
    CASE c = "p" -> "working"
      [] c = "o" -> "completed"
      [] c = "g" -> "completed"
      [] c = "f" -> "failed"
      [] c = "h" -> "failed"
      [] c = "e" -> "failed"
      [] OTHER   -> None

WorkerIdent == "w"

JSONparse(line) ==
    [type       |-> MsgType(line[2]),
     status     |-> MsgStatus(line[2]),
     identifier |-> IF Len(line) >= 4 /\ line[3] = "i" THEN WorkerIdent ELSE None,
     text       |-> SubSeq(line, IF Len(line) >= 4 /\ line[3] = "i" THEN 4 ELSE 3,
                           Len(line) - 1)]

\* ------------------------------------------------------------------ state
VARIABLES
    activeProcesses,  \* the registry Map: key -> job holding it, 0 when absent
    jobs,             \* every request that got past the admission test
    files,            \* os.tmpdir(): path -> job whose bytes it holds, 0 when absent
    sent,             \* mainWindow.webContents.send calls, in order
    calls,            \* calls of electronAPI.send / electronAPI.receive, in order
    forwarded,        \* channels given to ipcRenderer.send, in order
    nhandled,         \* how many of them ipcMain has emitted to its listeners
    toRenderer,       \* window messages of the main process not yet delivered
    onceHandlers,     \* pending ipcMain.once('animation-finished') handlers
    windowLog,        \* mainWindow.minimize() / close() calls, in order
    body,             \* document.body: plain, fading (fadeOut runs) or faded
    listeners,        \* channel -> number of ipcRenderer.on listeners
    handed,           \* the argument lists the page's listeners were called with
    progressStatus    \* the local conversion view: idle, starting or answered

jobVars == <<activeProcesses, jobs, files, sent>>
shellVars == <<calls, forwarded, nhandled, toRenderer, onceHandlers, windowLog,
               body, listeners, handed, progressStatus>>
vars == <<jobVars, shellVars>>

\* preload.js, validChannels of send
sendValidChannels ==
    {"minimize-window", "maximize-window", "close-window", "run-conversion",
     "open-external-link", "fetch-github-releases", "download-and-compile-deb",
     "start-patching", "animation-finished"}

\* preload.js, validChannels of receive
receiveValidChannels ==
    {"conversion-progress", "conversion-error", "conversion-complete",
     "github-releases-data", "github-releases-error", "backend-message",
     "start-minimize-animation", "start-close-animation", "window-restored"}

Channels == sendValidChannels \cup receiveValidChannels

\* path.join(tempDir, ipaName || `temp_ipa_${Date.now()}.ipa`)
tempIpaPath(ipaName, now) ==
    IF ipaName # None THEN <<"tmp", ipaName>> ELSE <<"tmp", "temp_ipa_", now, ".ipa">>

Paths == {tempIpaPath(n, None) : n \in IpaNames} \cup {tempIpaPath(None, t) : t \in Clock}

JobIds == 1..Len(jobs)

\* A key made of the kind alone: all jobs of one kind share one key.
processKeyKindOnly(job) == <<job.kind, "u">>

\* A key made of the argument alone: the three kinds share one key space.
processKeyShared(job) == <<"download", job.arg>>

\* `fetch:${repoUrl}`, `download:${downloadUrl}`, `patch:${identifier}`
processKey(job) == <<job.kind, job.arg>>

NewJob(kind, arg, status, path) ==
    [kind     |-> kind,
     arg      |-> arg,       \* repoUrl, downloadUrl or identifier
     status   |-> status,    \* staging, running, closed, spawn_error, stage_error, invalid
     path     |-> path,      \* tempIpaPath of a patch job
     out      |-> <<>>,      \* what the worker wrote to stdout, write by write
     nread    |-> 0,         \* bytes of it handed to the 'data' handler so far
     buffer   |-> <<>>,      \* the handler's  let buffer = ''
     segs     |-> <<>>,      \* the lines the handler's loop has cut off so far
     code     |-> None,      \* exit code given to the 'close' handler
     released |-> 0,         \* activeProcesses.delete calls made for this job
     unlink   |-> "none"]    \* fs.unlink of path: none, pending, done, failed

RECURSIVE Flatten(_)
Flatten(ws) == IF ws = <<>> THEN <<>> ELSE Head(ws) \o Flatten(Tail(ws))

\* Bytes written by the worker and not yet read by the 'data' handler.
Pipe(job) == SubSeq(Flatten(job.out), job.nread + 1, Len(Flatten(job.out)))

\* One mainWindow.webContents.send; job is the job whose handler made it.
Event(channel, type, status, identifier, download_url, code, text, j) ==
    [channel |-> channel, type |-> type, status |-> status,
     identifier |-> identifier, download_url |-> download_url,
     code |-> code, text |-> text, job |-> j]

Init ==
    /\ activeProcesses = [k \in Keys |-> 0]
    /\ jobs = <<>>
    /\ files = [p \in Paths |-> 0]
    /\ sent = <<>>
    /\ calls = <<>>
    /\ forwarded = <<>>
    /\ nhandled = 0
    /\ toRenderer = <<>>
    /\ onceHandlers = <<>>
    /\ windowLog = <<>>
    /\ body = "plain"
    /\ listeners = [c \in Channels |-> IF c \in receiveValidChannels THEN 1 ELSE 0]
    /\ handed = <<>>
    /\ progressStatus = "idle"

\* ------------------------------------------------- stdout 'data' handlers
\* What the try block of each listener sends for one parsed line.
FetchMessage(jsonData, j) ==
    IF jsonData.type = "github_releases" /\ jsonData.status = "completed"
    THEN <<Event("github-releases-data", jsonData.type, jsonData.status,
                 None, None, None, jsonData.text, j)>>
    ELSE IF jsonData.type = "github" /\ jsonData.status = "failed"
    THEN <<Event("github-releases-error", jsonData.type, jsonData.status,
                 None, None, None, jsonData.text, j)>>
    ELSE <<>>

DownloadMessage(jsonData, j) ==
    <<Event("backend-message", jsonData.type, jsonData.status,
            jsonData.identifier, None, None, jsonData.text, j)>>

PatchMessage(jsonData, identifier, j) ==
    <<Event("backend-message", jsonData.type, jsonData.status,
            identifier, None, None, jsonData.text, j)>>

\* The loop body without  if (line): an empty segment is sent on as a
\* message of its own.
OnLineNoGuard(line, job, j) ==
    IF line = <<>>
    THEN <<Event("backend-message", "unknown", None, None, None, None, <<>>, j)>>
    ELSE IF ~ParseOk(line) THEN <<>>
    ELSE CASE job.kind = "fetch"    -> FetchMessage(JSONparse(line), j)
           [] job.kind = "download" -> DownloadMessage(JSONparse(line), j)
           [] job.kind = "patch"    -> PatchMessage(JSONparse(line), job.arg, j)

\* if (line) { try { JSON.parse(line); send } catch { warn } }
OnLine(line, job, j) ==
    IF line = <<>> \/ ~ParseOk(line) THEN <<>>
    ELSE CASE job.kind = "fetch"    -> FetchMessage(JSONparse(line), j)
           [] job.kind = "download" -> DownloadMessage(JSONparse(line), j)
           [] job.kind = "patch"    -> PatchMessage(JSONparse(line), job.arg, j)

\* The loop without its try/catch: a line that is no JSON ends it.
RECURSIVE LineLoopAbort(_, _, _)
LineLoopAbort(st, job, j) ==
    LET boundary == indexOf(st.buffer, NL) IN
    IF boundary = 0 THEN st
    ELSE LET line == SubSeq(st.buffer, 1, boundary - 1)
             next == [buffer |-> SubSeq(st.buffer, boundary + 1, Len(st.buffer)),
                      segs   |-> Append(st.segs, line),
                      sent   |-> st.sent \o OnLine(line, job, j)]
         IN  IF line # <<>> /\ ~ParseOk(line) THEN next
             ELSE LineLoopAbort(next, job, j)

\* while (boundary !== -1) { line = ...; buffer = ...; if (line) {...} }
\* st = [buffer, segs, sent]
RECURSIVE LineLoop(_, _, _)
LineLoop(st, job, j) ==
    LET boundary == indexOf(st.buffer, NL) IN
    IF boundary = 0 THEN st
    ELSE LET line == SubSeq(st.buffer, 1, boundary - 1) IN
         LineLoop([buffer |-> SubSeq(st.buffer, boundary + 1, Len(st.buffer)),
                   segs   |-> Append(st.segs, line),
                   sent   |-> st.sent \o OnLine(line, job, j)],
                  job, j)

\* buffer = data.toString() in place of  += : the kept tail is lost.
OnDataNoCarry(job, j, data, out) ==
    LineLoop([buffer |-> toString(data), segs |-> job.segs, sent |-> out], job, j)

\* buffer += data.toString(); then the loop.
OnData(job, j, data, out) ==
    LineLoop([buffer |-> job.buffer \o toString(data), segs |-> job.segs, sent |-> out],
             job, j)

StdoutData(j, n) ==
    /\ j \in JobIds
    /\ jobs[j].status = "running"
    /\ n \in 1..Len(Pipe(jobs[j]))
    /\ LET st == OnData(jobs[j], j, SubSeq(Pipe(jobs[j]), 1, n), sent) IN
         /\ jobs' = [jobs EXCEPT ![j].buffer = st.buffer,
                                 ![j].segs = st.segs,
                                 ![j].nread = @ + n]
         /\ sent' = st.sent
    /\ UNCHANGED <<activeProcesses, files>>

\* A stderr handler that reports what it reads to the renderer.
StderrDataForward(j) ==
    /\ j \in JobIds
    /\ jobs[j].status = "running"
    /\ sent' = Append(sent, Event("backend-message", "operation", "failed",
                                 None, None, None, <<>>, j))
    /\ UNCHANGED <<activeProcesses, jobs, files>>

\* stderr 'data': console.error only.
StderrData(j) ==
    /\ j \in JobIds
    /\ jobs[j].status = "running"
    /\ UNCHANGED vars

RECURSIVE Writes(_)
Writes(js) == IF js = <<>> THEN 0 ELSE Len(Head(js).out) + Writes(Tail(js))

\* The worker writes w to its standard output.
WorkerWrite(j, w, limit) ==
    /\ j \in JobIds
    /\ jobs[j].status = "running"
    /\ Writes(jobs) < limit
    /\ jobs' = [jobs EXCEPT ![j].out = Append(@, w)]
    /\ UNCHANGED <<activeProcesses, files, sent>>

\* ------------------------------------------------------------- listeners
\* spawn('python', ...) followed by activeProcesses.set(processKey, ...).
\* started = FALSE: the program cannot be launched.  The child then emits
\* 'error', for which no listener is registered, and 'close' never fires.
Spawn(j, job, started) ==
    /\ jobs' = IF j > Len(jobs)
               THEN Append(jobs, [job EXCEPT !.status =
                                     IF started THEN "running" ELSE "spawn_error"])
               ELSE [jobs EXCEPT ![j].status =
                                     IF started THEN "running" ELSE "spawn_error"]
    /\ activeProcesses' = [activeProcesses EXCEPT ![processKey(job)] = j]

\* ipcMain.on('fetch-github-releases')
FetchRequest(repoUrl, started, limit) ==
    LET job == NewJob("fetch", repoUrl, "running", None) IN
    IF activeProcesses[processKey(job)] # 0
    THEN UNCHANGED vars
    ELSE /\ Len(jobs) < limit
         /\ Spawn(Len(jobs) + 1, job, started)
         /\ UNCHANGED <<files, sent>>

\* A listener that answers a request for a key in the registry with a
\* failed event.
DownloadRequestNotify(downloadUrl, started, limit) ==
    LET job == NewJob("download", downloadUrl, "running", None) IN
    IF activeProcesses[processKey(job)] # 0
    THEN /\ sent' = Append(sent, Event("backend-message", "operation", "failed",
                                      None, downloadUrl, None, <<>>,
                                      activeProcesses[processKey(job)]))
         /\ UNCHANGED <<activeProcesses, jobs, files>>
    ELSE /\ Len(jobs) < limit
         /\ Spawn(Len(jobs) + 1, job, started)
         /\ UNCHANGED <<files, sent>>

\* ipcMain.on('download-and-compile-deb')
DownloadRequest(downloadUrl, started, limit) ==
    LET job == NewJob("download", downloadUrl, "running", None) IN
    IF activeProcesses[processKey(job)] # 0
    THEN UNCHANGED vars
    ELSE /\ Len(jobs) < limit
         /\ Spawn(Len(jobs) + 1, job, started)
         /\ UNCHANGED <<files, sent>>

\* A listener that validates the data before it looks at the registry.
PatchRequestValidateFirst(identifier, ipaName, now, valid, limit) ==
    LET job == NewJob("patch", identifier, "staging", tempIpaPath(ipaName, now)) IN
    /\ Len(jobs) < limit
    /\ IF ~valid
       THEN /\ jobs' = Append(jobs, [job EXCEPT !.status = "invalid", !.path = None])
            /\ sent' = Append(sent, Event("backend-message", "operation", "failed",
                                         identifier, None, None, <<>>, Len(jobs) + 1))
       ELSE IF activeProcesses[processKey(job)] # 0
       THEN UNCHANGED <<jobs, sent>>
       ELSE /\ jobs' = Append(jobs, job)
            /\ sent' = sent
    /\ UNCHANGED <<activeProcesses, files>>

\* ipcMain.on('start-patching'), up to the call of fs.writeFile.
\* valid = FALSE: ipaBuffer or tweakPath is missing.
PatchRequest(identifier, ipaName, now, valid, limit) ==
    LET job == NewJob("patch", identifier, "staging", tempIpaPath(ipaName, now)) IN
    IF activeProcesses[processKey(job)] # 0
    THEN UNCHANGED vars
    ELSE /\ Len(jobs) < limit
         /\ IF ~valid
            THEN /\ jobs' = Append(jobs, [job EXCEPT !.status = "invalid", !.path = None])
                 /\ sent' = Append(sent, Event("backend-message", "operation", "failed",
                                              identifier, None, None, <<>>, Len(jobs) + 1))
            ELSE /\ jobs' = Append(jobs, job)
                 /\ sent' = sent
         /\ UNCHANGED <<activeProcesses, files>>

\* The callback with an error branch that only logs and returns.
WriteFileDoneSilent(j, err, partial, started) ==
    /\ j \in JobIds
    /\ jobs[j].status = "staging"
    /\ IF err
       THEN /\ jobs' = [jobs EXCEPT ![j].status = "stage_error"]
            /\ files' = IF partial THEN [files EXCEPT ![jobs[j].path] = j] ELSE files
            /\ UNCHANGED <<activeProcesses, sent>>
       ELSE /\ files' = [files EXCEPT ![jobs[j].path] = j]
            /\ Spawn(j, jobs[j], started)
            /\ sent' = sent

\* The callback of fs.writeFile.  err: the write failed; partial: a failed
\* write left a file behind at the path all the same.
WriteFileDone(j, err, partial, started) ==
    /\ j \in JobIds
    /\ jobs[j].status = "staging"
    /\ IF err
       THEN /\ jobs' = [jobs EXCEPT ![j].status = "stage_error"]
            /\ files' = IF partial THEN [files EXCEPT ![jobs[j].path] = j] ELSE files
            /\ sent' = Append(sent, Event("backend-message", "operation", "failed",
                                         jobs[j].arg, None, None, <<>>, j))
            /\ UNCHANGED activeProcesses
       ELSE /\ files' = [files EXCEPT ![jobs[j].path] = j]
            /\ Spawn(j, jobs[j], started)
            /\ sent' = sent

\* ------------------------------------------------------ 'close' handlers
\* code ? 'failed' : 'completed': no code counts as success.
ExitStatusTruthy(code) == IF code \in {"0", "null"} THEN "completed" ELSE "failed"

\* code === 0 ? 'completed' : 'failed'
ExitStatus(code) == IF code = "0" THEN "completed" ELSE "failed"

\* What each 'close' handler sends.
CloseMessage(job, j, code) ==
    CASE job.kind = "fetch"    -> <<>>
      [] job.kind = "download" -> <<Event("backend-message", "process_exit", ExitStatus(code),
                                          None, job.arg, code, <<>>, j)>>
      [] job.kind = "patch"    -> <<Event("backend-message", "process_exit", ExitStatus(code),
                                          job.arg, None, code, <<>>, j)>>

\* A patch 'close' handler without the fs.unlink call, like the other two.
CloseUnlinkNever(job) == job.unlink

\* fs.unlink(tempIpaPath, ...) is called by the patch 'close' handler only.
CloseUnlink(job) == IF job.kind = "patch" THEN "pending" ELSE job.unlink

\* A 'close' handler that first feeds what is left in the buffer to the
\* line handler.
OnCloseFlush(job, j, code, registry, out) ==
    [activeProcesses |-> [registry EXCEPT ![processKey(job)] = 0],
     job  |-> [job EXCEPT !.status = "closed",
                          !.code = code,
                          !.released = @ + 1,
                          !.unlink = CloseUnlink(job)],
     sent |-> out \o OnLine(job.buffer, job, j) \o CloseMessage(job, j, code)]

\* A 'close' handler that leaves the key in the registry.
OnCloseNoDelete(job, j, code, registry, out) ==
    [activeProcesses |-> registry,
     job  |-> [job EXCEPT !.status = "closed",
                          !.code = code,
                          !.unlink = CloseUnlink(job)],
     sent |-> out \o CloseMessage(job, j, code)]

\* The body of pythonProcess.on('close', (code) => ...): the registry, the
\* job and the sends after it.
OnClose(job, j, code, registry, out) ==
    [activeProcesses |-> [registry EXCEPT ![processKey(job)] = 0],
     job  |-> [job EXCEPT !.status = "closed",
                          !.code = code,
                          !.released = @ + 1,
                          !.unlink = CloseUnlink(job)],
     sent |-> out \o CloseMessage(job, j, code)]

\* 'close' fires once per worker, after the stdout stream has ended.
Close(j, code) ==
    /\ j \in JobIds
    /\ jobs[j].status = "running"
    /\ Pipe(jobs[j]) = <<>>
    /\ LET st == OnClose(jobs[j], j, code, activeProcesses, sent) IN
         /\ activeProcesses' = st.activeProcesses
         /\ jobs' = [jobs EXCEPT ![j] = st.job]
         /\ sent' = st.sent
    /\ UNCHANGED files

\* An fs.unlink callback that reports a failed deletion to the renderer.
UnlinkDoneEscalate(j, ok) ==
    /\ j \in JobIds
    /\ jobs[j].unlink = "pending"
    /\ ok => files[jobs[j].path] # 0
    /\ jobs' = [jobs EXCEPT ![j].unlink = IF ok THEN "done" ELSE "failed"]
    /\ files' = IF ok THEN [files EXCEPT ![jobs[j].path] = 0] ELSE files
    /\ sent' = IF ok THEN sent
               ELSE Append(sent, Event("backend-message", "operation", "failed",
                                       jobs[j].arg, None, None, <<>>, j))
    /\ UNCHANGED activeProcesses

\* The callback of fs.unlink: the error is logged, nothing else.
\* ok = FALSE: the deletion failed (always so when the file is not there).
UnlinkDone(j, ok) ==
    /\ j \in JobIds
    /\ jobs[j].unlink = "pending"
    /\ ok => files[jobs[j].path] # 0
    /\ jobs' = [jobs EXCEPT ![j].unlink = IF ok THEN "done" ELSE "failed"]
    /\ files' = IF ok THEN [files EXCEPT ![jobs[j].path] = 0] ELSE files
    /\ UNCHANGED <<activeProcesses, sent>>

\* ------------------------------------------------- bridge, window, views
\* A send whitelist that lets every channel through.
sendIncludesAny(channel) == TRUE

\* validChannels.includes(channel) in electronAPI.send
sendIncludes(channel) == channel \in sendValidChannels

\* validChannels.includes(channel) in electronAPI.receive
receiveIncludes(channel) == channel \in receiveValidChannels

\* (event, ...args) => func(...args): what func is called with.
StripEvent(cbArgs) == Tail(cbArgs)

\* electronAPI.send(channel, data): the calls and forwards after it.
ElectronSend(channel) ==
    /\ calls' = Append(calls, [api |-> "send", channel |-> channel])
    /\ forwarded' = IF sendIncludes(channel) THEN Append(forwarded, channel) ELSE forwarded

\* Calls made by the page itself, not by an animationend handler.
PageCalls ==
    Len(SelectSeq(calls, LAMBDA c : c.api = "receive" \/ c.channel # "animation-finished"))

\* mainWindow.close() has been called: the window and its page are gone.
Closed == \E i \in 1..Len(windowLog) : windowLog[i].action = "close"

\* Click on minimize-btn or close-btn (part_002:30-32).
ClickWindowButton(channel) ==
    /\ ~Closed
    /\ PageCalls < MaxCalls
    /\ ElectronSend(channel)
    /\ UNCHANGED <<jobVars, nhandled, toRenderer, onceHandlers, windowLog, body,
                   listeners, handed, progressStatus>>

\* Click on convertAllBtn (part_002:180-185).
ClickConvertAll ==
    /\ ~Closed
    /\ PageCalls < MaxCalls
    /\ ElectronSend("run-conversion")
    /\ progressStatus' = "starting"
    /\ UNCHANGED <<jobVars, nhandled, toRenderer, onceHandlers, windowLog, body,
                   listeners, handed>>

\* Any other script of the page calling electronAPI.send.
PageSend(channel) ==
    /\ ~Closed
    /\ PageCalls < MaxCalls
    /\ ElectronSend(channel)
    /\ UNCHANGED <<jobVars, nhandled, toRenderer, onceHandlers, windowLog, body,
                   listeners, handed, progressStatus>>

\* Any script of the page calling electronAPI.receive(channel, func).
PageReceive(channel) ==
    /\ ~Closed
    /\ PageCalls < MaxCalls
    /\ calls' = Append(calls, [api |-> "receive", channel |-> channel])
    /\ listeners' = IF receiveIncludes(channel)
                    THEN [listeners EXCEPT ![channel] = @ + 1]
                    ELSE listeners
    /\ UNCHANGED <<jobVars, forwarded, nhandled, toRenderer, onceHandlers, windowLog,
                   body, handed, progressStatus>>

\* What the handlers of one 'animation-finished' emit do: every pending
\* once handler runs, in the order of registration, and is removed.
AnimationFinished(pending, notification) ==
    [i \in 1..Len(pending) |->
        [action       |-> pending[i],
         notification |-> notification,
         latest       |-> pending[Len(pending)]]]

\* ipcMain emits the next forwarded message to the listeners main.js has
\* registered for its channel (main.js:77-89); a channel without a listener
\* is dropped.
MainHandle ==
    /\ ~Closed
    /\ nhandled < Len(forwarded)
    /\ nhandled' = nhandled + 1
    /\ LET channel == forwarded[nhandled + 1] IN
       CASE channel = "minimize-window" ->
              /\ toRenderer' = Append(toRenderer, "start-minimize-animation")
              /\ onceHandlers' = Append(onceHandlers, "minimize")
              /\ UNCHANGED windowLog
         [] channel = "close-window" ->
              /\ toRenderer' = Append(toRenderer, "start-close-animation")
              /\ onceHandlers' = Append(onceHandlers, "close")
              /\ UNCHANGED windowLog
         [] channel = "animation-finished" ->
              /\ windowLog' = windowLog \o AnimationFinished(onceHandlers, nhandled + 1)
              /\ onceHandlers' = <<>>
              /\ UNCHANGED toRenderer
         [] OTHER -> UNCHANGED <<toRenderer, onceHandlers, windowLog>>
    /\ UNCHANGED <<jobVars, calls, forwarded, body, listeners, handed, progressStatus>>

\* ipcRenderer emits the next message of the main process to the listeners
\* registered through the bridge; classList.add('fade-out') starts the
\* animation only when the class is not there yet (part_002:33-34); a
\* conversion-* message sets the text of the conversion view (187-198).
RendererDeliver ==
    /\ ~Closed
    /\ toRenderer # <<>>
    /\ toRenderer' = Tail(toRenderer)
    /\ LET channel == Head(toRenderer) IN
         /\ handed' = handed \o [i \in 1..listeners[channel] |-> StripEvent(<<"event">>)]
         /\ body' = IF /\ channel \in {"start-minimize-animation", "start-close-animation"}
                       /\ listeners[channel] >= 1
                       /\ body = "plain"
                    THEN "fading" ELSE body
         /\ progressStatus' =
               IF /\ channel \in {"conversion-progress", "conversion-error",
                                  "conversion-complete"}
                  /\ listeners[channel] >= 1
               THEN "answered" ELSE progressStatus
    /\ UNCHANGED <<jobVars, calls, forwarded, nhandled, onceHandlers, windowLog,
                   listeners>>

\* 'animationend' with animationName fadeOut (part_002:35-39).
AnimationEnd ==
    /\ ~Closed
    /\ body = "fading"
    /\ body' = "faded"
    /\ ElectronSend("animation-finished")
    /\ UNCHANGED <<jobVars, nhandled, toRenderer, onceHandlers, windowLog,
                   listeners, handed, progressStatus>>

\* --------------------------------------------------------- specifications
Line(k) == <<"{", k, "}", NL>>

\* Exit codes of the workers in the orchestration runs.
OrchCodes == {"0", "1"}

\* What a worker writes in one write, in the orchestration runs.
OrchWrites == {Line("p"), Line("o")}

\* What a worker writes in one write, in the decoder runs: whole lines, a
\* line that is no JSON, an empty line, a line holding a two-byte character,
\* and a result with no newline after it.
DecoderWrites ==
    {Line("p"), Line("o"), Line("g"), <<"x", NL>>, <<NL>>,
     <<"{", "p", "m1", "m2", "}", NL>>, <<"{", "o", "}">>}

Next ==
    \/ \E u \in Urls, started \in BOOLEAN : FetchRequest(u, started, MaxJobs) /\ UNCHANGED shellVars
    \/ \E u \in Urls, started \in BOOLEAN : DownloadRequest(u, started, MaxJobs) /\ UNCHANGED shellVars
    \/ \E u \in Urls, n \in IpaNames, valid \in BOOLEAN :
          PatchRequest(u, n, None, valid, MaxJobs) /\ UNCHANGED shellVars
    \/ \E j \in JobIds, err, partial, started \in BOOLEAN :
          WriteFileDone(j, err, partial, started) /\ UNCHANGED shellVars
    \/ \E j \in JobIds, w \in OrchWrites : WorkerWrite(j, w, MaxWrites) /\ UNCHANGED shellVars
    \/ \E j \in JobIds : StdoutData(j, Len(Pipe(jobs[j]))) /\ UNCHANGED shellVars
    \/ \E j \in JobIds : StderrData(j) /\ UNCHANGED shellVars
    \/ \E j \in JobIds, code \in OrchCodes : Close(j, code) /\ UNCHANGED shellVars
    \/ \E j \in JobIds, ok \in BOOLEAN : UnlinkDone(j, ok) /\ UNCHANGED shellVars

Spec == Init /\ [][Next]_vars

\* The same runs when every worker that runs has its output read and exits:
\* the stdout stream of a child ends and its 'close' event fires.
FairSpec ==
    /\ Spec
    /\ \A j \in 1..MaxJobs :
          /\ WF_vars(/\ j \in JobIds
                     /\ StdoutData(j, Len(Pipe(jobs[j])))
                     /\ UNCHANGED shellVars)
          /\ WF_vars(\E code \in OrchCodes : Close(j, code) /\ UNCHANGED shellVars)

\* One job whose worker starts, any output, any split of it into chunks.
DecoderNext ==
    \/ \E u \in Urls : FetchRequest(u, TRUE, 1) /\ UNCHANGED shellVars
    \/ \E u \in Urls : DownloadRequest(u, TRUE, 1) /\ UNCHANGED shellVars
    \/ \E u \in Urls, n \in IpaNames \cup {None}, t \in Clock :
          PatchRequest(u, n, t, TRUE, 1) /\ UNCHANGED shellVars
    \/ \E j \in JobIds : WriteFileDone(j, FALSE, FALSE, TRUE) /\ UNCHANGED shellVars
    \/ \E j \in JobIds, w \in DecoderWrites : WorkerWrite(j, w, MaxLines) /\ UNCHANGED shellVars
    \/ \E j \in JobIds : \E n \in 1..Len(Pipe(jobs[j])) : StdoutData(j, n) /\ UNCHANGED shellVars
    \/ \E j \in JobIds : StderrData(j) /\ UNCHANGED shellVars
    \/ \E j \in JobIds, code \in ExitCodes : Close(j, code) /\ UNCHANGED shellVars
    \/ \E j \in JobIds, ok \in BOOLEAN : UnlinkDone(j, ok) /\ UNCHANGED shellVars

DecoderSpec == Init /\ [][DecoderNext]_vars

\* What a worker writes in one write, in the message runs: one line of each
\* message shape, one of them with an identifier field of the worker's own.
MessageWrites ==
    {Line("p"), <<"{", "p", "i", "}", NL>>, Line("t"), Line("o"),
     Line("g"), Line("h"), Line("e"), Line("n")}

\* Jobs whose workers start and exit with code 0, every message shape,
\* whole lines as chunks.
MessageNext ==
    \/ \E u \in Urls : FetchRequest(u, TRUE, MaxJobs) /\ UNCHANGED shellVars
    \/ \E u \in Urls : DownloadRequest(u, TRUE, MaxJobs) /\ UNCHANGED shellVars
    \/ \E u \in Urls, n \in IpaNames : PatchRequest(u, n, None, TRUE, MaxJobs) /\ UNCHANGED shellVars
    \/ \E j \in JobIds : WriteFileDone(j, FALSE, FALSE, TRUE) /\ UNCHANGED shellVars
    \/ \E j \in JobIds, w \in MessageWrites : WorkerWrite(j, w, MaxWrites) /\ UNCHANGED shellVars
    \/ \E j \in JobIds : StdoutData(j, Len(Pipe(jobs[j]))) /\ UNCHANGED shellVars
    \/ \E j \in JobIds : Close(j, "0") /\ UNCHANGED shellVars
    \/ \E j \in JobIds : UnlinkDone(j, TRUE) /\ UNCHANGED shellVars

MessageSpec == Init /\ [][MessageNext]_vars

\* What a worker writes in one write, in the runs with jobs side by side.
PairWrites == {Line("p")}

\* Download and patch jobs for two urls side by side, their output read in
\* chunks of any size.
PairNext ==
    \/ \E u \in AllUrls : DownloadRequest(u, TRUE, MaxJobs) /\ UNCHANGED shellVars
    \/ \E u \in AllUrls, n \in IpaNames : PatchRequest(u, n, None, TRUE, MaxJobs) /\ UNCHANGED shellVars
    \/ \E j \in JobIds : WriteFileDone(j, FALSE, FALSE, TRUE) /\ UNCHANGED shellVars
    \/ \E j \in JobIds, w \in PairWrites : WorkerWrite(j, w, 2) /\ UNCHANGED shellVars
    \/ \E j \in JobIds : \E n \in 1..Len(Pipe(jobs[j])) : StdoutData(j, n) /\ UNCHANGED shellVars
    \/ \E j \in JobIds : Close(j, "0") /\ UNCHANGED shellVars
    \/ \E j \in JobIds : UnlinkDone(j, TRUE) /\ UNCHANGED shellVars

PairSpec == Init /\ [][PairNext]_vars

\* Channels the page's other scripts send on and listen to, in the window
\* runs: some in the bridge's whitelists, some not.
PageSendChannels == {"open-external-link", "backend-message"}
PageReceiveChannels == {"window-restored", "animation-finished"}

\* The window buttons, the local conversion view and the bridge.
ShellNext ==
    \/ \E c \in {"minimize-window", "close-window"} : ClickWindowButton(c)
    \/ ClickConvertAll
    \/ \E c \in PageSendChannels : PageSend(c)
    \/ \E c \in PageReceiveChannels : PageReceive(c)
    \/ MainHandle
    \/ RendererDeliver
    \/ AnimationEnd

ShellSpec == Init /\ [][ShellNext]_vars

\* The same runs when ipcMain and ipcRenderer emit every message they get
\* and a running animation ends.
ShellFairSpec ==
    /\ ShellSpec
    /\ WF_vars(MainHandle)
    /\ WF_vars(RendererDeliver)
    /\ WF_vars(AnimationEnd)

\* ------------------------------------------------------------ observation
IsOpResult(e) == e.type = "operation" /\ e.status \in {"completed", "failed"}
IsProcessExit(e) == e.type = "process_exit"
IsTerminal(e) == IsOpResult(e) \/ IsProcessExit(e)

\* The sends made by the handlers of job j, in order.
EventsOf(j) == SelectSeq(sent, LAMBDA e : e.job = j)
\* Those of them that forward a worker message.
MessagesOf(j) == SelectSeq(sent, LAMBDA e : e.job = j /\ ~IsProcessExit(e))

Spawned(j) == jobs[j].status \in {"running", "closed"}

\* The bytes of job's stdout that the 'data' handler has been given.
Delivered(job) == SubSeq(Flatten(job.out), 1, job.nread)

\* The newline-terminated lines of a byte string, as the worker wrote them.
RECURSIVE CompleteLines(_)
CompleteLines(bytes) ==
    LET i == indexOf(bytes, NL) IN
    IF i = 0 THEN <<>>
    ELSE <<SubSeq(bytes, 1, i - 1)>> \o CompleteLines(SubSeq(bytes, i + 1, Len(bytes)))

Shape(es) == [i \in 1..Len(es) |-> <<es[i].channel, es[i].type, es[i].status>>]

\* ----------------------------------------------------------------- claims

\* C1: for every key at most one worker that was spawned and has not exited
\* exists at any time; a request for a key whose job is in flight (a patch
\* job still writing its temp file included) spawns no second worker.
C1_OneWorkerPerKey ==
    \A a, b \in JobIds :
        (/\ jobs[a].status = "running"
         /\ jobs[b].status = "running"
         /\ processKey(jobs[a]) = processKey(jobs[b])) => a = b

\* C2: a download or patch job whose worker emitted an operation result and
\* then exited has dispatched exactly one terminal event: no process_exit
\* comes in addition to the forwarded result.
C2_OneTerminalEvent ==
    \A j \in JobIds :
        (/\ jobs[j].kind \in {"download", "patch"}
         /\ jobs[j].status = "closed"
         /\ \E i \in 1..Len(sent) : sent[i].job = j /\ IsOpResult(sent[i]))
        => Len(SelectSeq(EventsOf(j), IsTerminal)) = 1

\* C3: the key of an admitted job is deleted from the registry exactly once
\* over the job's lifetime: never before the job ends, once when it has
\* ended (the registry then no longer holds the job), whether an operation
\* result, the exit or both ended it.
C3_ReleasedExactlyOnce ==
    \A j \in JobIds :
        /\ jobs[j].status = "closed" =>
              /\ jobs[j].released = 1
              /\ activeProcesses[processKey(jobs[j])] # j
        /\ jobs[j].status # "closed" => jobs[j].released = 0

\* A job that forwarded an operation result and then exited.
C3_Witness ==
    \E j \in JobIds :
        /\ jobs[j].status = "closed"
        /\ jobs[j].released = 1
        /\ \E i \in 1..Len(sent) : sent[i].job = j /\ IsOpResult(sent[i])
        /\ \E i \in 1..Len(sent) : sent[i].job = j /\ IsProcessExit(sent[i])

\* C4: once the operation result of a job's worker has been dispatched, the
\* registry no longer holds the job under its key.
C4_ReleasedAtOperationResult ==
    \A j \in JobIds :
        (/\ Spawned(j)
         /\ \E i \in 1..Len(sent) : sent[i].job = j /\ IsOpResult(sent[i]))
        => activeProcesses[processKey(jobs[j])] # j

\* C5: a job of any kind whose worker exited with a non-zero code without
\* an operation result has dispatched a failed terminal event.
C5_FailedEventOnCrash ==
    \A j \in JobIds :
        (/\ jobs[j].status = "closed"
         /\ jobs[j].code # "0"
         /\ ~\E i \in 1..Len(sent) : sent[i].job = j /\ IsOpResult(sent[i]))
        => \E i \in 1..Len(sent) :
               sent[i].job = j /\ IsTerminal(sent[i]) /\ sent[i].status = "failed"

\* The identifier the consumer routes an event by.
Routable(e) == IF e.identifier # None THEN e.identifier ELSE e.download_url

\* C6: after the terminal event of a job no further event of that job with
\* the same identifier is dispatched.
C6_TerminalEventIsLast ==
    \A i, k \in 1..Len(sent) :
        (/\ i < k
         /\ sent[i].job = sent[k].job
         /\ IsTerminal(sent[i])
         /\ Routable(sent[i]) = Routable(sent[k])) => FALSE

\* The events the lines of a byte string give rise to, line by line.
RECURSIVE ExpectedEvents(_, _, _)
ExpectedEvents(lines, job, j) ==
    IF lines = <<>> THEN <<>>
    ELSE OnLine(toString(Head(lines)), job, j) \o ExpectedEvents(Tail(lines), job, j)

\* C7: the events dispatched from a worker's messages are, in order, the
\* messages of the lines it wrote: none reordered, duplicated or merged.
C7_LineOrderPreserved ==
    \A j \in JobIds :
        Shape(MessagesOf(j)) =
            Shape(ExpectedEvents(CompleteLines(Delivered(jobs[j])), jobs[j], j))

\* Two different messages of one worker have been dispatched, and a part of
\* a third line waits in the buffer.
C7_Witness ==
    \E j \in JobIds :
        /\ Len(MessagesOf(j)) = 2
        /\ MessagesOf(j)[1].type # MessagesOf(j)[2].type
        /\ jobs[j].buffer # <<>>

\* C8: however the output is split into chunks, the lines cut off and the
\* tail kept are those of feeding the whole output as one chunk.
C8_ChunkingInvariant ==
    \A j \in JobIds :
        LET whole == OnData(NewJob(jobs[j].kind, jobs[j].arg, "running", None),
                            j, Delivered(jobs[j]), <<>>)
        IN  /\ jobs[j].segs = whole.segs
            /\ jobs[j].buffer = whole.buffer

ValidLines(lines) == {i \in 1..Len(lines) : ParseOk(toString(lines[i]))}

\* C9: a line that is no JSON gives no event and does not stop the decoder:
\* a download or patch job has dispatched one event for each well-formed
\* line it has been given, whatever lines came before it.
C9_MalformedLineSkipped ==
    \A j \in JobIds :
        jobs[j].kind \in {"download", "patch"}
        => Len(MessagesOf(j)) = Cardinality(ValidLines(CompleteLines(Delivered(jobs[j]))))

\* A well-formed line that followed a line that is no JSON was dispatched.
C9_Witness ==
    \E j \in JobIds :
        LET lines == CompleteLines(Delivered(jobs[j])) IN
        /\ jobs[j].kind \in {"download", "patch"}
        /\ \E i, k \in 1..Len(lines) :
              i < k /\ lines[i] # <<>> /\ i \notin ValidLines(lines) /\ k \in ValidLines(lines)
        /\ Len(MessagesOf(j)) >= 1

\* A patch job that is over: its worker exited, could not be launched, or
\* its temp file could not be written.
PatchEnded(j) ==
    /\ jobs[j].kind = "patch"
    /\ jobs[j].status \in {"closed", "spawn_error", "stage_error"}

\* C10: once a patch job has ended, in whichever of the four ways, and no
\* deletion is under way, its staged temp file is gone.
C10_TempFileRemoved ==
    \A j \in JobIds :
        (PatchEnded(j) /\ jobs[j].unlink # "pending") => files[jobs[j].path] # j

C12_SpawnFailureReported ==
    \A j \in JobIds :
        jobs[j].status = "spawn_error" =>
            /\ \E i \in 1..Len(sent) : sent[i].job = j /\ sent[i].status = "failed"
            /\ activeProcesses[processKey(jobs[j])] # j

\* C13: a patch job whose temp file could not be written has dispatched one
\* event, an operation event with status failed and the job's identifier;
\* it has no worker and the registry does not hold it.
C13_WriteFailureReported ==
    \A j \in JobIds :
        jobs[j].status = "stage_error" =>
            /\ Shape(EventsOf(j)) = << <<"backend-message", "operation", "failed">> >>
            /\ EventsOf(j)[1].identifier = jobs[j].arg
            /\ jobs[j].out = <<>> /\ jobs[j].code = None /\ jobs[j].released = 0
            /\ activeProcesses[processKey(jobs[j])] # j

\* The write of a patch job failed while no job held its key.
C13_Witness ==
    \E j \in JobIds :
        /\ jobs[j].status = "stage_error"
        /\ activeProcesses[processKey(jobs[j])] = 0
        /\ \E i \in 1..Len(sent) : sent[i].job = j /\ sent[i].identifier = jobs[j].arg

\* activeProcesses.has(processKey) for a request of the kind and argument.
InRegistry(kind, arg) == activeProcesses[processKey(NewJob(kind, arg, "running", None))] # 0

\* C14: a request of any kind whose key is in the registry changes nothing:
\* the registry, the jobs with their decoder buffers, the temp files and the
\* events sent are after the listener what they were before it.
C14_RejectedRequestNoEffect ==
    [][\A u \in Urls :
          /\ (InRegistry("fetch", u) /\ FetchRequest(u, TRUE, MaxJobs))
                => UNCHANGED vars
          /\ (InRegistry("download", u) /\ DownloadRequest(u, TRUE, MaxJobs))
                => UNCHANGED vars
          /\ (InRegistry("patch", u) /\ \E n \in IpaNames \cup {None}, t \in Clock :
                                            PatchRequest(u, n, t, TRUE, MaxJobs))
                => UNCHANGED vars]_vars

\* A running patch job holds its key, has staged its file and keeps a part
\* of a line in its buffer: a request for its key is rejected here.
C14_Witness ==
    \E j \in JobIds :
        /\ jobs[j].kind = "patch"
        /\ jobs[j].status = "running"
        /\ InRegistry("patch", jobs[j].arg)
        /\ files[jobs[j].path] = j
        /\ jobs[j].buffer # <<>>

\* Job j has dispatched a tweak_detected message.
TweakDispatched(j) ==
    \E i \in 1..Len(sent) : sent[i].job = j /\ sent[i].type = "tweak_detected"

\* C15: once a download job has dispatched tweak_detected, the registry no
\* longer holds the job under its key.
C15_ReleasedAtTweakDetected ==
    \A j \in JobIds :
        (jobs[j].kind = "download" /\ TweakDispatched(j))
        => activeProcesses[processKey(jobs[j])] # j

\* C16: after a download job for u has dispatched tweak_detected, exited or
\* not, a patch request with identifier u is admitted whenever no patch job
\* for u holds the registry itself.
C16_PatchAdmittedAfterTweak ==
    \A j \in JobIds :
        (/\ jobs[j].kind = "download"
         /\ TweakDispatched(j)
         /\ Len(jobs) < MaxJobs
         /\ ~\E k \in JobIds : /\ jobs[k].kind = "patch"
                               /\ jobs[k].arg = jobs[j].arg
                               /\ jobs[k].status \in {"running", "spawn_error"})
        => ENABLED (/\ \E n \in IpaNames : PatchRequest(jobs[j].arg, n, None, TRUE, MaxJobs)
                    /\ jobs' # jobs)

\* A patch job for u was admitted after the download job for u dispatched
\* tweak_detected and while the download worker was still running.
C16_Witness ==
    \E j, k \in JobIds :
        /\ j < k
        /\ jobs[j].kind = "download"
        /\ jobs[j].status = "running"
        /\ TweakDispatched(j)
        /\ activeProcesses[processKey(jobs[j])] = j
        /\ jobs[k].kind = "patch"
        /\ jobs[k].arg = jobs[j].arg

\* The messages job j's handler has parsed from the lines it was given.
ParsedOf(j) ==
    LET lines == CompleteLines(Delivered(jobs[j]))
        good  == SelectSeq(lines, LAMBDA l : l # <<>> /\ ParseOk(toString(l)))
    IN  [i \in 1..Len(good) |-> JSONparse(toString(good[i]))]

\* C17: every message a download or patch job dispatches is routed by the
\* identifier the worker put in it, and by the job's own url or identifier
\* when the worker put none.
C17_RoutableIdentifier ==
    \A j \in JobIds :
        jobs[j].kind \in {"download", "patch"} =>
            /\ Len(MessagesOf(j)) = Len(ParsedOf(j))
            /\ \A i \in 1..Len(ParsedOf(j)) :
                  Routable(MessagesOf(j)[i]) =
                      IF ParsedOf(j)[i].identifier # None
                      THEN ParsedOf(j)[i].identifier
                      ELSE jobs[j].arg

\* C18: a fetch job has sent the releases list once for each releases
\* result with status completed it has parsed, and for each releases result
\* with status failed a failure event with the worker's error text.
C18_FetchResultReported ==
    \A j \in JobIds :
        jobs[j].kind = "fetch" =>
            /\ Len(SelectSeq(EventsOf(j), LAMBDA e : e.channel = "github-releases-data"))
                 = Len(SelectSeq(ParsedOf(j), LAMBDA m : /\ m.type = "github_releases"
                                                         /\ m.status = "completed"))
            /\ \A i \in 1..Len(ParsedOf(j)) :
                  (ParsedOf(j)[i].type = "github_releases" /\ ParsedOf(j)[i].status = "failed")
                  => \E k \in 1..Len(sent) :
                         /\ sent[k].job = j
                         /\ sent[k].channel = "github-releases-error"
                         /\ sent[k].text = ParsedOf(j)[i].text

\* C19: no message of a shape other than progress, tweak_detected,
\* operation result and releases result is ever sent to the renderer.
C19_UnknownShapeDiscarded ==
    \A i \in 1..Len(sent) : sent[i].type # "unknown"

\* C20: a stderr 'data' callback leaves the events sent, the registry and
\* every job, its decoder buffer included, as they were.
C20_StderrIgnored ==
    [][\A j \in JobIds : StderrData(j) => UNCHANGED <<sent, activeProcesses, jobs>>]_vars

\* A worker that can write to stderr has had a message dispatched and its
\* handler keeps a part of a line in the buffer.
C20_Witness ==
    \E j \in JobIds :
        /\ jobs[j].status = "running"
        /\ activeProcesses[processKey(jobs[j])] = j
        /\ jobs[j].buffer # <<>>
        /\ Len(MessagesOf(j)) >= 1

\* What is left of a byte string after its last newline.
RECURSIVE LastPartial(_)
LastPartial(bytes) ==
    LET i == indexOf(bytes, NL) IN
    IF i = 0 THEN bytes ELSE LastPartial(SubSeq(bytes, i + 1, Len(bytes)))

\* No spawned job of the kind and argument holds the registry.
NoneRegistered(kind, arg) ==
    ~\E k \in JobIds : /\ jobs[k].kind = kind
                       /\ jobs[k].arg = arg
                       /\ jobs[k].status \in {"running", "spawn_error"}

\* C21: jobs with distinct keys do not touch each other: the buffer and the
\* events of each job are those of its own worker's bytes alone, a patch
\* job's events carry its own identifier, and a request for a key no job
\* holds is admitted whatever other jobs are running.
C21_DistinctKeysIndependent ==
    /\ \A j \in JobIds :
          Spawned(j) =>
              /\ jobs[j].buffer = toString(LastPartial(Delivered(jobs[j])))
              /\ MessagesOf(j) = ExpectedEvents(CompleteLines(Delivered(jobs[j])), jobs[j], j)
              /\ jobs[j].kind = "patch" =>
                    \A i \in 1..Len(sent) :
                        sent[i].job = j => sent[i].identifier = jobs[j].arg
    /\ \A u \in AllUrls :
          Len(jobs) < MaxJobs =>
              /\ NoneRegistered("download", u)
                    => ENABLED (DownloadRequest(u, TRUE, MaxJobs) /\ jobs' # jobs)
              /\ NoneRegistered("patch", u)
                    => ENABLED (/\ \E n \in IpaNames : PatchRequest(u, n, None, TRUE, MaxJobs)
                                /\ jobs' # jobs)

\* Two workers of one kind run for different arguments, one with a part of
\* a line in its buffer, the other with a message dispatched.
C21_Witness ==
    \E j, k \in JobIds :
        /\ jobs[j].kind = jobs[k].kind
        /\ jobs[j].arg # jobs[k].arg
        /\ jobs[j].status = "running"
        /\ jobs[k].status = "running"
        /\ jobs[j].buffer # <<>>
        /\ Len(MessagesOf(k)) >= 1

\* C22: two patch jobs that are in flight at the same time, staging or
\* running, never have the same temp file path.
C22_DistinctTempPaths ==
    \A a, b \in JobIds :
        (/\ a # b
         /\ jobs[a].kind = "patch"
         /\ jobs[b].kind = "patch"
         /\ jobs[a].status \in {"staging", "running"}
         /\ jobs[b].status \in {"staging", "running"})
        => jobs[a].path # jobs[b].path

\* C23: a patch job whose worker exited has sent one process_exit event, the
\* last of its events, with the status of its exit code, and its key is out
\* of the registry, whether the deletion of its temp file is still under
\* way, succeeded or failed.
C23_UnlinkFailureSilent ==
    \A j \in JobIds :
        (jobs[j].kind = "patch" /\ jobs[j].status = "closed") =>
            LET es == EventsOf(j) IN
            /\ Len(SelectSeq(es, IsProcessExit)) = 1
            /\ IsProcessExit(es[Len(es)])
            /\ es[Len(es)].status = ExitStatus(jobs[j].code)
            /\ jobs[j].released = 1
            /\ activeProcesses[processKey(jobs[j])] # j

\* The deletion of a patch job's temp file failed.
C23_Witness ==
    \E j \in JobIds :
        /\ jobs[j].kind = "patch"
        /\ jobs[j].status = "closed"
        /\ jobs[j].unlink = "failed"
        /\ Len(SelectSeq(EventsOf(j), IsProcessExit)) = 1

\* C24: every process_exit event carries the exit code of its worker, and
\* its status is completed exactly when that code is 0 and failed for every
\* other code and for no code at all.
C24_ExitStatusFromCode ==
    \A i \in 1..Len(sent) :
        IsProcessExit(sent[i]) =>
            /\ sent[i].code = jobs[sent[i].job].code
            /\ sent[i].status = "completed" <=> sent[i].code = "0"
            /\ sent[i].status = "failed" <=> sent[i].code # "0"

\* A worker ended by a signal, without an exit code, was reported as failed.
C24_Witness ==
    \E i \in 1..Len(sent) :
        /\ IsProcessExit(sent[i])
        /\ sent[i].code = "null"
        /\ sent[i].status = "failed"

\* C25: the text of every message dispatched is the text of its line as
\* decoded in one piece, wherever the chunk boundaries fell.
C25_MultiByteAcrossChunks ==
    \A j \in JobIds :
        LET got  == MessagesOf(j)
            want == ExpectedEvents(CompleteLines(Delivered(jobs[j])), jobs[j], j)
        IN  /\ Len(got) = Len(want)
            /\ \A i \in 1..Len(got) : got[i].text = want[i].text

\* What the lines of a byte string decode to, each line taken as a message.
RECURSIVE DecodedEvents(_, _, _)
DecodedEvents(lines, job, j) ==
    IF lines = <<>> THEN <<>>
    ELSE LET line == toString(Head(lines)) IN
         (IF ~ParseOk(line) THEN <<>>
          ELSE CASE job.kind = "fetch"    -> FetchMessage(JSONparse(line), j)
                 [] job.kind = "download" -> DownloadMessage(JSONparse(line), j)
                 [] job.kind = "patch"    -> PatchMessage(JSONparse(line), job.arg, j))
         \o DecodedEvents(Tail(lines), job, j)

C27_KeyEventuallyFreed ==
    /\ \A k \in Keys : (activeProcesses[k] # 0) ~> (activeProcesses[k] = 0)
    /\ [](\A j \in JobIds :
             jobs[j].status = "running" => activeProcesses[processKey(jobs[j])] # 0)

\* C28: a key is in the registry exactly when a worker spawned for it has
\* not exited, and the entry of the key is that worker.
C28_RegistryMatchesWorkers ==
    /\ \A k \in Keys :
          activeProcesses[k] # 0
          <=> \E j \in JobIds : jobs[j].status = "running" /\ processKey(jobs[j]) = k
    /\ \A j \in JobIds :
          jobs[j].status = "running" => activeProcesses[processKey(jobs[j])] = j

\* C29: while the worker of a patch job runs, the file at the job's temp
\* path is the one the job staged: no other job has deleted or overwritten
\* it.
C29_TempFileKeptWhileRunning ==
    \A j \in JobIds :
        (jobs[j].kind = "patch" /\ jobs[j].status = "running")
        => files[jobs[j].path] = j

\* C30: when a patch job for u follows the tweak_detected of the download
\* job for u, every event of the patch job comes after the process_exit of
\* the download job.
C30_DownloadExitBeforePatchEvents ==
    \A j, k \in JobIds :
        (/\ j < k
         /\ jobs[j].kind = "download"
         /\ TweakDispatched(j)
         /\ jobs[k].kind = "patch"
         /\ jobs[k].arg = jobs[j].arg)
        => \A i \in 1..Len(sent) :
               sent[i].job = k
               => \E h \in 1..(i - 1) : sent[h].job = j /\ IsProcessExit(sent[h])

\* C31: a patch request without input bytes or tweak path for a key not in
\* the registry has sent one event, operation failed with the request's
\* identifier, and has no temp file, no worker and no registry entry; such
\* a request for a key in the registry changes nothing.
C31_InvalidPatchRequest ==
    /\ [](\A j \in JobIds :
             jobs[j].status = "invalid" =>
                 /\ Shape(EventsOf(j)) = << <<"backend-message", "operation", "failed">> >>
                 /\ EventsOf(j)[1].identifier = jobs[j].arg
                 /\ \A p \in Paths : files[p] # j
                 /\ jobs[j].out = <<>> /\ jobs[j].code = None
                 /\ activeProcesses[processKey(jobs[j])] # j)
    /\ [][\A u \in Urls, n \in IpaNames :
             (InRegistry("patch", u) /\ PatchRequest(u, n, None, FALSE, MaxJobs))
             => UNCHANGED vars]_vars

\* An invalid patch request was answered while no job held its key.
C31_Witness ==
    \E j \in JobIds :
        /\ jobs[j].status = "invalid"
        /\ Len(EventsOf(j)) = 1
        /\ ~InRegistry("patch", jobs[j].arg)

\* C32: what a worker wrote after its last newline is never dispatched: a
\* job whose worker exited with a segment left in the buffer has dispatched
\* the messages of its newline-terminated lines and no other, and the
\* segment is still in the buffer.
C32_TrailingSegmentDropped ==
    \A j \in JobIds :
        (jobs[j].status = "closed" /\ jobs[j].buffer # <<>>) =>
            /\ jobs[j].buffer = toString(LastPartial(Flatten(jobs[j].out)))
            /\ Shape(MessagesOf(j)) =
                  Shape(DecodedEvents(SelectSeq(CompleteLines(Flatten(jobs[j].out)),
                                                LAMBDA l : l # <<>>),
                                      jobs[j], j))

\* A worker exited with a whole operation result, unterminated, in the
\* buffer, and no operation result was dispatched.
C32_Witness ==
    \E j \in JobIds :
        /\ jobs[j].kind \in {"download", "patch"}
        /\ jobs[j].status = "closed"
        /\ jobs[j].buffer = <<"{", "o", "}">>
        /\ ~\E i \in 1..Len(sent) : sent[i].job = j /\ IsOpResult(sent[i])

\* C33: a conversion view that shows 'Starting conversion...' after a
\* run-conversion request gets an answer from the main process in the end.
C33_ConversionAnswered ==
    (progressStatus = "starting") ~> (progressStatus = "answered")

\* C34: no two window actions come from one animation-finished
\* notification, every window action is the one asked for by the latest
\* request, and at most one once handler is pending at any time.
C34_OneActionPerAnimation ==
    /\ \A a, b \in 1..Len(windowLog) :
          a # b => windowLog[a].notification # windowLog[b].notification
    /\ \A a \in 1..Len(windowLog) : windowLog[a].action = windowLog[a].latest
    /\ Len(onceHandlers) <= 1

\* The calls of the api on the channel, among the page's calls so far.
CallsOn(api, channel) ==
    Len(SelectSeq(calls, LAMBDA c : c.api = api /\ c.channel = channel))

\* C35: what the bridge has forwarded to the main process is the page's
\* sends on whitelisted channels, in order, and nothing else; listeners are
\* registered for the receives on whitelisted channels and no other; no
\* listener was called with the IPC event among its arguments.
C35_BridgeWhitelists ==
    /\ LET valid == SelectSeq(calls, LAMBDA c : /\ c.api = "send"
                                                /\ c.channel \in sendValidChannels)
       IN  forwarded = [i \in 1..Len(valid) |-> valid[i].channel]
    /\ \A c \in Channels :
          listeners[c] = IF c \in receiveValidChannels
                         THEN 1 + CallsOn("receive", c)
                         ELSE 0
    /\ \A i \in 1..Len(handed) : \A k \in 1..Len(handed[i]) : handed[i][k] # "event"

\* The page has sent on a channel outside the send whitelist and asked to
\* listen on one outside the receive whitelist, and a listener it did
\* register has been called.
C35_Witness ==
    /\ \E i \in 1..Len(calls) :
          calls[i].api = "send" /\ calls[i].channel \notin sendValidChannels
    /\ \E i \in 1..Len(calls) :
          calls[i].api = "receive" /\ calls[i].channel \notin receiveValidChannels
    /\ Len(handed) >= 1

====
